---- MODULE Spec2Model ----
(***************************************************************************)
(* Model of src/src/index.js: a batch program that reads an edge list,     *)
(* builds an adjacency map, precomputes a prefix-sum bound table and runs  *)
(* a pruned depth-first search from every vertex, then writes the best     *)
(* vertex sequence to standard output.                                     *)
(*                                                                         *)
(* Input text is modelled after the split(',')/trim() of line 22: a line   *)
(* is the sequence of its trimmed fields, and a field is an empty string,  *)
(* a non-numeric text or a numeric token with its value.  Distances are    *)
(* kept in hundredths (8.54 is 854) so that sums are exact integers.       *)
(* Output text is modelled as the sequence of its characters.              *)
(***************************************************************************)
EXTENDS Integers, Sequences, FiniteSets, TLC

VARIABLES
    input,         \* the lines of standard input, each a sequence of fields
    pc,            \* position of the top-level script
    lines,         \* the non-blank lines (line 12)
    lineIdx,       \* position of the for-of loop of line 21 in `lines`
    nodes,         \* Set `nodes`, in insertion order
    graph,         \* Map `graph`: vertex -> sequence of [node, dist]
    allEdges,      \* distances sorted in descending order
    prefixSum,     \* prefixSum[k+1] = sum of the k largest distances
    totalEdges,
    totalNodes,
    bestDistance,  \* NEGATIVE_INFINITY or Fin(d)
    bestPath,
    startIdx,      \* position of the for-of loop of line 113 in `nodes`
    stack,         \* active dfs calls, innermost last
    visited,       \* the Set shared by all dfs calls of one start vertex
    path,          \* the array shared by all dfs calls of one start vertex
    output,        \* characters written to standard output
    candidates     \* history: every totalDist computed at line 93, in order

vars == <<input, pc, lines, lineIdx, nodes, graph, allEdges, prefixSum, totalEdges, totalNodes,
          bestDistance, bestPath, startIdx, stack, visited, path, output,
          candidates>>

----------------------------------------------------------------------------
(* Bounds of the enumerated inputs *)

MaxVertex == 2

MaxLines == 3

Weights == {1, 2}

----------------------------------------------------------------------------
(* Generic helpers *)

Range(s) == { s[k] : k \in 1..Len(s) }

Min(a, b) == IF a <= b THEN a ELSE b

Last(s) == s[Len(s)]

Front(s) == SubSeq(s, 1, Len(s) - 1)

----------------------------------------------------------------------------
(* Input fields and lines *)

EmptyField == [k |-> "empty", v |-> 0]

TextField == [k |-> "text", v |-> 0]

Num(n) == [k |-> "num", v |-> n]

EdgeLine(from, to, dist) == <<Num(from), Num(to), Num(dist)>>

BlankLine == <<EmptyField>>

ShortLine == <<Num(1), Num(2)>>

TextLine == <<TextField, Num(1), Num(1)>>

SampleInput ==
    << EdgeLine(1, 2, 854), EdgeLine(2, 3, 311), EdgeLine(3, 1, 219),
       EdgeLine(3, 4, 400), EdgeLine(4, 1, 140) >>

SingleEdgeInput == << EdgeLine(1, 2, 500) >>

EdgeLines ==
    { EdgeLine(f, t, w) : f \in 1..MaxVertex, t \in 1..MaxVertex, w \in Weights }

JunkLines == { BlankLine, ShortLine, TextLine }

SeqsUpTo(S, n) == UNION { [1..k -> S] : k \in 0..n }

(* Every edge list of at most MaxLines lines; every input of blank and      *)
(* malformed lines only; every edge line with one such line before or      *)
(* after it.                                                               *)
BoundedInputs ==
    SeqsUpTo(EdgeLines, MaxLines)
    \cup SeqsUpTo(JunkLines, MaxLines)
    \cup { <<j, e>> : j \in JunkLines, e \in EdgeLines }
    \cup { <<e, j>> : j \in JunkLines, e \in EdgeLines }

Inputs == BoundedInputs \cup { SampleInput, SingleEdgeInput }

----------------------------------------------------------------------------
(* Graph builder, lines 12-39 *)

NaN == [nan |-> TRUE, val |-> 0]

ParseNumber(field) ==
    IF field.k = "num" THEN [nan |-> FALSE, val |-> field.v] ELSE NaN

FieldAt(line, k) == IF k <= Len(line) THEN line[k] ELSE EmptyField

Falsy(field) == field.k = "empty"

NonBlank(text) == SelectSeq(text, LAMBDA line : line # BlankLine)

AddNode(ns, n) == IF n \in Range(ns) THEN ns ELSE Append(ns, n)

PushEdge(g, from, e) ==
    IF from \in DOMAIN g
    THEN [g EXCEPT ![from] = Append(@, e)]
    ELSE g @@ (from :> <<e>>)

AddLine(st, line) ==
    LET fromStr == FieldAt(line, 1)
        toStr == FieldAt(line, 2)
        distStr == FieldAt(line, 3)
        from == ParseNumber(fromStr)
        to == ParseNumber(toStr)
        dist == ParseNumber(distStr)
    IN  IF Falsy(fromStr) \/ Falsy(toStr) \/ Falsy(distStr) THEN st
        ELSE IF from.nan \/ to.nan \/ dist.nan THEN st
        ELSE [ nodes |-> AddNode(AddNode(st.nodes, from.val), to.val),
               graph |-> PushEdge(st.graph, from.val,
                                  [node |-> to.val, dist |-> dist.val]) ]

FillMissing(g, ns) ==
    [ n \in Range(ns) |-> IF n \in DOMAIN g THEN g[n] ELSE <<>> ]

EmptyGraph == [ nodes |-> <<>>, graph |-> [ n \in {} |-> <<>> ] ]

----------------------------------------------------------------------------
(* Bound estimator, lines 46-58 *)

RECURSIVE Flatten(_, _, _)
Flatten(g, ns, k) ==
    IF k > Len(ns) THEN <<>>
    ELSE [ j \in 1..Len(g[ns[k]]) |-> g[ns[k]][j].dist ] \o Flatten(g, ns, k + 1)

(* allEdges.sort((a, b) => b - a): the position of s[j] in the sorted     *)
(* array is the number of larger elements, plus the equal ones before it.  *)
SortedPos(s, j) ==
    1 + Cardinality({ k \in 1..Len(s) : s[k] > s[j] })
      + Cardinality({ k \in 1..(j - 1) : s[k] = s[j] })

SortDesc(s) ==
    [ p \in 1..Len(s) |-> s[CHOOSE j \in 1..Len(s) : SortedPos(s, j) = p] ]

RECURSIVE SumFirst(_, _)
SumFirst(s, k) == IF k = 0 THEN 0 ELSE SumFirst(s, k - 1) + s[k]

PrefixSums(s) == [ p \in 1..(Len(s) + 1) |-> SumFirst(s, p - 1) ]

----------------------------------------------------------------------------
(* Best result, lines 65-66 and 93-97 *)

NEGATIVE_INFINITY == <<>>

Fin(d) == <<d>>

LeqBest(x, best) == best # NEGATIVE_INFINITY /\ x <= best[1]

(* Improves with >= in place of > *)
ImprovesOrTies(totalDist, best) == best = NEGATIVE_INFINITY \/ totalDist >= best[1]

Improves(totalDist, best) == best = NEGATIVE_INFINITY \/ totalDist > best[1]

(* ClosedPath without the closing vertex *)
OpenPath(p, next) == p

ClosedPath(p, next) == Append(p, next)

----------------------------------------------------------------------------
(* dfs, lines 80-107 *)

PrefixAt(k) == IF (k + 1) \in DOMAIN prefixSum THEN prefixSum[k + 1] ELSE 0

MaxPotentialDist(vis) ==
    LET remainingNodes == totalNodes - Cardinality(vis)
        maxEdgesPossible == Min(remainingNodes, totalEdges)
    IN  PrefixAt(maxEdgesPossible)

Pruned(distance, vis) == LeqBest(distance + MaxPotentialDist(vis), bestDistance)

(* Unvisited without the visited.has(next) test *)
AlwaysUnvisited(next, vis) == TRUE

Unvisited(next, vis) == next \notin vis

(* DeleteVisited without the visited.delete(next) *)
KeepVisited(vis, next) == vis

DeleteVisited(vis, next) == vis \ {next}

NextIndex(i) == i + 1

Frame(current, start, distance, vis, p) ==
    [ current |-> current, start |-> start, distance |-> distance,
      i |-> 1, phase |-> "enter", entryVisited |-> vis, entryPath |-> p ]

Top == Last(stack)

AtEntry(f) == f.phase = "enter"

AtExit(f) ==
    \/ f.phase = "exit"
    \/ f.phase = "loop" /\ f.i > Len(graph[f.current])

SetTop(f) == [stack EXCEPT ![Len(stack)] = f]

----------------------------------------------------------------------------
(* Initial state and steps *)

Init ==
    /\ input \in Inputs
    /\ pc = "read"
    /\ lines = <<>>
    /\ lineIdx = 1
    /\ nodes = <<>>
    /\ graph = EmptyGraph.graph
    /\ allEdges = <<>>
    /\ prefixSum = <<>>
    /\ totalEdges = 0
    /\ totalNodes = 0
    /\ bestDistance = NEGATIVE_INFINITY
    /\ bestPath = <<>>
    /\ startIdx = 1
    /\ stack = <<>>
    /\ visited = {}
    /\ path = <<>>
    /\ output = <<>>
    /\ candidates = <<>>

(* lines 11-12 *)
ReadInput ==
    /\ pc = "read"
    /\ lines' = NonBlank(input)
    /\ pc' = "parse"
    /\ UNCHANGED <<input, lineIdx, nodes, graph, allEdges, prefixSum,
                   totalEdges, totalNodes, bestDistance, bestPath, startIdx,
                   stack, visited, path, output, candidates>>

(* lines 21-35: one iteration of the loop over the lines *)
ParseLine ==
    /\ pc = "parse"
    /\ lineIdx <= Len(lines)
    /\ \E st \in { AddLine([nodes |-> nodes, graph |-> graph], lines[lineIdx]) } :
          /\ nodes' = st.nodes
          /\ graph' = st.graph
    /\ lineIdx' = lineIdx + 1
    /\ UNCHANGED <<input, pc, lines, allEdges, prefixSum, totalEdges,
                   totalNodes, bestDistance, bestPath, startIdx, stack,
                   visited, path, output, candidates>>

(* lines 37-39 *)
FillGraph ==
    /\ pc = "parse"
    /\ lineIdx > Len(lines)
    /\ graph' = FillMissing(graph, nodes)
    /\ pc' = "bounds"
    /\ UNCHANGED <<input, lines, lineIdx, nodes, allEdges, prefixSum,
                   totalEdges, totalNodes, bestDistance, bestPath, startIdx,
                   stack, visited, path, output, candidates>>

(* lines 46-66 *)
BuildBounds ==
    /\ pc = "bounds"
    /\ \E sorted \in { SortDesc(Flatten(graph, nodes, 1)) } :
          /\ allEdges' = sorted
          /\ prefixSum' = PrefixSums(sorted)
          /\ totalEdges' = Len(sorted)
    /\ totalNodes' = Len(nodes)
    /\ bestDistance' = NEGATIVE_INFINITY
    /\ bestPath' = <<>>
    /\ pc' = "start"
    /\ UNCHANGED <<input, lines, lineIdx, nodes, graph, startIdx, stack,
                   visited, path, output, candidates>>

(* lines 113-115: the next start vertex, and the call of dfs *)
StartDfs ==
    /\ pc = "start"
    /\ startIdx <= Len(nodes)
    /\ LET startNode == nodes[startIdx]
       IN  /\ visited' = {startNode}
           /\ path' = <<startNode>>
           /\ stack' = <<Frame(startNode, startNode, 0, {startNode}, <<startNode>>)>>
    /\ startIdx' = startIdx + 1
    /\ pc' = "dfs"
    /\ UNCHANGED <<input, lines, lineIdx, nodes, graph, allEdges, prefixSum, totalEdges,
                   totalNodes, bestDistance, bestPath, output, candidates>>

(* line 116: the loop over the start vertices is exhausted *)
EndSearch ==
    /\ pc = "start"
    /\ startIdx > Len(nodes)
    /\ pc' = "fallback"
    /\ UNCHANGED <<input, lines, lineIdx, nodes, graph, allEdges, prefixSum, totalEdges,
                   totalNodes, bestDistance, bestPath, startIdx, stack,
                   visited, path, output, candidates>>

(* lines 82-87: the prune check at the entry of a call *)
DfsEnter ==
    /\ pc = "dfs"
    /\ AtEntry(Top)
    /\ stack' = SetTop([Top EXCEPT !.phase =
                          IF Pruned(Top.distance, visited) THEN "exit" ELSE "loop"])
    /\ UNCHANGED <<input, pc, lines, lineIdx, nodes, graph, allEdges, prefixSum, totalEdges,
                   totalNodes, bestDistance, bestPath, startIdx, visited, path,
                   output, candidates>>

(* lines 90-102: one iteration of the loop over the outgoing edges *)
DfsEdge ==
    /\ pc = "dfs"
    /\ Top.phase = "loop"
    /\ Top.i <= Len(graph[Top.current])
    /\ LET e == graph[Top.current][Top.i]
           next == e.node
           w == e.dist
           totalDist == Top.distance + w
           resumed == [Top EXCEPT !.i = NextIndex(Top.i)]
       IN  IF next = Top.start
           THEN /\ candidates' = Append(candidates,
                      [ dist |-> totalDist, path |-> ClosedPath(path, next),
                        start |-> Top.start ])
                /\ IF Improves(totalDist, bestDistance)
                   THEN /\ bestDistance' = Fin(totalDist)
                        /\ bestPath' = ClosedPath(path, next)
                   ELSE UNCHANGED <<bestDistance, bestPath>>
                /\ stack' = SetTop(resumed)
                /\ UNCHANGED <<visited, path>>
           ELSE IF Unvisited(next, visited)
           THEN /\ visited' = visited \cup {next}
                /\ path' = Append(path, next)
                /\ stack' = Append(SetTop(resumed),
                                   Frame(next, Top.start, Top.distance + w,
                                         visited', path'))
                /\ UNCHANGED <<bestDistance, bestPath, candidates>>
           ELSE /\ stack' = SetTop(resumed)
                /\ UNCHANGED <<visited, path, bestDistance, bestPath, candidates>>
    /\ UNCHANGED <<input, pc, lines, lineIdx, nodes, graph, allEdges, prefixSum, totalEdges,
                   totalNodes, startIdx, output>>

(* lines 86 and 107: a call returns; lines 103-104 in its caller *)
DfsReturn ==
    /\ pc = "dfs"
    /\ AtExit(Top)
    /\ stack' = Front(stack)
    /\ IF Len(stack) > 1
       THEN /\ path' = Front(path)
            /\ visited' = DeleteVisited(visited, Last(path))
            /\ pc' = "dfs"
       ELSE /\ pc' = "start"
            /\ UNCHANGED <<visited, path>>
    /\ UNCHANGED <<input, lines, lineIdx, nodes, graph, allEdges, prefixSum, totalEdges,
                   totalNodes, bestDistance, bestPath, startIdx, output,
                   candidates>>

(* lines 119-121 *)
Fallback ==
    /\ pc = "fallback"
    /\ bestPath' = IF Len(bestPath) = 0 /\ Len(nodes) > 0
                   THEN <<nodes[1]>> ELSE bestPath
    /\ pc' = "output"
    /\ UNCHANGED <<input, lines, lineIdx, nodes, graph, allEdges, prefixSum, totalEdges,
                   totalNodes, bestDistance, startIdx, stack, visited, path,
                   output, candidates>>

(* lines 128-129 *)
DigitChar(d) == <<"0", "1", "2", "3", "4", "5", "6", "7", "8", "9">>[d + 1]

RECURSIVE Digits(_)
Digits(n) == IF n < 10 THEN <<DigitChar(n)>>
             ELSE Append(Digits(n \div 10), DigitChar(n % 10))

IdToString(id) == IF id < 0 THEN <<"-">> \o Digits(-id) ELSE Digits(id)

CRLF == <<"\r", "\n">>

RECURSIVE Join(_, _)
Join(strs, sep) ==
    IF strs = <<>> THEN <<>>
    ELSE IF Len(strs) = 1 THEN strs[1]
    ELSE strs[1] \o sep \o Join(Tail(strs), sep)

OutputStr(p) == Join([ k \in 1..Len(p) |-> IdToString(p[k]) ], CRLF)

Written(p) == OutputStr(p) \o CRLF

Output ==
    /\ pc = "output"
    /\ output' = Written(bestPath)
    /\ pc' = "done"
    /\ UNCHANGED <<input, lines, lineIdx, nodes, graph, allEdges, prefixSum, totalEdges,
                   totalNodes, bestDistance, bestPath, startIdx, stack,
                   visited, path, candidates>>

Next ==
    \/ ReadInput
    \/ ParseLine
    \/ FillGraph
    \/ BuildBounds
    \/ StartDfs
    \/ EndSearch
    \/ DfsEnter
    \/ DfsEdge
    \/ DfsReturn
    \/ Fallback
    \/ Output

Spec == Init /\ [][Next]_vars

(* The script is one sequential thread: it keeps running until it ends.   *)
(* The inputs of this specification are those of fewer than MaxLines       *)
(* lines, and the two scenario inputs.                                     *)
LiveInit ==
    /\ Init
    /\ Len(input) < MaxLines \/ input \in { SampleInput, SingleEdgeInput }

LiveSpec == LiveInit /\ [][Next]_vars /\ WF_vars(Next)

----------------------------------------------------------------------------
(* Reference definitions used by the properties *)

MaxOf(S) == CHOOSE x \in S : \A y \in S : y <= x

NoRepeats(p) == \A a, b \in 1..Len(p) : a # b => p[a] # p[b]

HasEdge(g, u, v) ==
    u \in DOMAIN g /\ \E k \in 1..Len(g[u]) : g[u][k].node = v

FollowsEdges(g, p) == \A k \in 1..(Len(p) - 1) : HasEdge(g, p[k], p[k + 1])

IsSimplePath(g, p) ==
    Len(p) >= 1 /\ p[1] \in DOMAIN g /\ NoRepeats(p) /\ FollowsEdges(g, p)

(* The totals a vertex sequence can have, over the parallel edges between  *)
(* its consecutive vertices.                                               *)
RECURSIVE PathSums(_, _, _)
PathSums(g, p, k) ==
    IF k >= Len(p) THEN {0}
    ELSE { g[p[k]][j].dist + rest :
             j \in { j \in 1..Len(g[p[k]]) : g[p[k]][j].node = p[k + 1] },
             rest \in PathSums(g, p, k + 1) }

(* The largest total of a simple directed path that starts at v and avoids vis *)
RECURSIVE LongestFrom(_, _, _)
LongestFrom(g, v, vis) ==
    MaxOf({0} \cup
          { g[v][j].dist + LongestFrom(g, g[v][j].node, vis \cup {g[v][j].node}) :
              j \in { j \in 1..Len(g[v]) : g[v][j].node \notin vis } })

LongestSimple(g) == MaxOf({ LongestFrom(g, v, {v}) : v \in DOMAIN g })

(* dfs of lines 80-107 with the prune check of lines 82-87 removed: the    *)
(* best distance after the calls below (current, i), starting from best.   *)
RECURSIVE FullLoop(_, _, _, _, _, _)
FullLoop(current, start, vis, distance, i, best) ==
    IF i > Len(graph[current]) THEN best
    ELSE LET e == graph[current][i]
             after ==
                 IF e.node = start
                 THEN IF Improves(distance + e.dist, best)
                      THEN Fin(distance + e.dist) ELSE best
                 ELSE IF e.node \notin vis
                 THEN FullLoop(e.node, start, vis \cup {e.node},
                               distance + e.dist, 1, best)
                 ELSE best
         IN  FullLoop(current, start, vis, distance, i + 1, after)

RECURSIVE FullSearch(_, _)
FullSearch(k, best) ==
    IF k > Len(nodes) THEN best
    ELSE FullSearch(k + 1, FullLoop(nodes[k], nodes[k], {nodes[k]}, 0, 1, best))

Exceeds(a, b) == a # NEGATIVE_INFINITY /\ (b = NEGATIVE_INFINITY \/ a[1] > b[1])

InSearch == pc \in {"start", "dfs"}

SearchOver == pc \in {"fallback", "output", "done"}

BeforeFallback == pc \in {"read", "parse", "bounds", "start", "dfs", "fallback"}

MaxIdx(cs) ==
    CHOOSE k \in 1..Len(cs) :
        /\ \A j \in 1..Len(cs) : cs[j].dist <= cs[k].dist
        /\ \A j \in 1..(k - 1) : cs[j].dist < cs[k].dist

----------------------------------------------------------------------------
(* Properties *)

(* C1: for every graph with at least one edge, when the program ends the   *)
(* result is a simple path whose total weight is the maximum over all      *)
(* simple directed paths; for the single edge 1->2 the result is 1,2.      *)
C1_LongestSimplePath ==
    (pc = "done" /\ totalEdges >= 1) =>
        /\ IsSimplePath(graph, bestPath)
        /\ LongestSimple(graph) \in PathSums(graph, bestPath, 1)
        /\ input = SingleEdgeInput => bestPath = <<1, 2>>

(* C2: the result has no vertex more than once, each consecutive pair of   *)
(* it is an edge of the input, and no self-loop is part of it.             *)
C2_ResultIsSimple ==
    pc = "done" =>
        /\ NoRepeats(bestPath)
        /\ FollowsEdges(graph, bestPath)
        /\ \A k \in 1..(Len(bestPath) - 1) : bestPath[k] # bestPath[k + 1]

(* C3: on the sample input the result is 1,2,3,4 with distance 15.65,      *)
(* written as the ids joined by CRLF with nothing after the last id.       *)
C3_SampleResult ==
    (pc = "done" /\ input = SampleInput) =>
        /\ bestPath = <<1, 2, 3, 4>>
        /\ bestDistance = Fin(1565)
        /\ output = <<"1">> \o CRLF \o <<"2">> \o CRLF \o <<"3">> \o CRLF \o <<"4">>

(* C4: the search without the prune check never ends with a strictly       *)
(* larger best distance than the pruned search, and below a call that      *)
(* returns early at the prune check no candidate exceeds bestDistance.     *)
C4_PruningSound ==
    /\ SearchOver => ~Exceeds(FullSearch(1, NEGATIVE_INFINITY), bestDistance)
    /\ (pc = "dfs" /\ Top.phase = "exit") =>
          FullLoop(Top.current, Top.start, visited, Top.distance, 1,
                   bestDistance) = bestDistance

(* C5: for a graph with at least one vertex, the best distance at the end  *)
(* is the sum of the weights of the edges along the returned path (0 for   *)
(* a single vertex).                                                       *)
C5_DistanceIsPathSum ==
    (pc = "done" /\ Len(nodes) >= 1) =>
        bestDistance \in { Fin(x) : x \in PathSums(graph, bestPath, 1) }

(* C6: when the input yields no edge and no vertex, nothing is written.    *)
C6_EmptyInputNoOutput ==
    (pc = "done" /\ Len(nodes) = 0 /\ totalEdges = 0) => output = <<>>

(* C7: during the search the best result is replaced only by a candidate   *)
(* of strictly greater distance, so the best result is always the first,   *)
(* in enumeration order, of the candidates of maximum distance met so far. *)
C7_StrictImprovement ==
    /\ [][ (InSearch /\ (bestPath' # bestPath \/ bestDistance' # bestDistance))
             => Exceeds(bestDistance', bestDistance) ]_vars
    /\ [](IF candidates = <<>>
          THEN bestDistance = NEGATIVE_INFINITY
          ELSE /\ bestDistance = Fin(candidates[MaxIdx(candidates)].dist)
               /\ bestPath = candidates[MaxIdx(candidates)].path)

C7_Witness ==
    /\ pc = "done"
    /\ \E a, b \in 1..Len(candidates) :
          /\ a < b
          /\ a = MaxIdx(candidates)
          /\ candidates[b].dist = candidates[a].dist
          /\ candidates[b].path # candidates[a].path
          /\ bestPath = candidates[a].path

(* C8: in every state of a dfs call, and so at its entry and at every      *)
(* exit, visited holds exactly the vertices of path, which are distinct    *)
(* and start at the start vertex; visited and path are what they were at   *)
(* the entry of the call, before and after each recursive call; the graph  *)
(* does not change during the search.                                      *)
C8_BacktrackingInvariant ==
    /\ [](pc = "dfs" =>
            /\ visited = Range(path)
            /\ NoRepeats(path)
            /\ path[1] = Top.start
            /\ Last(path) = Top.current
            /\ Len(path) = Len(stack)
            /\ visited = Top.entryVisited
            /\ path = Top.entryPath)
    /\ [][ InSearch => (graph' = graph) ]_vars

C8_Witness ==
    /\ pc = "dfs"
    /\ Len(stack) >= 2
    /\ Top.phase = "exit"
    /\ stack[Len(stack) - 1].i > 2

(* C9: the search terminates, and the depth of nested dfs calls never      *)
(* exceeds the number of vertices.                                         *)
C9_Terminates ==
    /\ <>(pc = "done")
    /\ [](Len(stack) <= Len(nodes))

C9_Witness ==
    /\ pc = "dfs"
    /\ Len(nodes) >= 2
    /\ Len(stack) = Len(nodes)
    /\ Top.phase = "loop"
    /\ Top.i <= Len(graph[Top.current])
    /\ graph[Top.current][Top.i].node \in visited

====
